---- MODULE Spec2Model ----
(***************************************************************************)
(* Model of scripts/auto_approver.py: a poll loop that fetches all         *)
(* transactions from a remote store, and for every Pending transaction     *)
(* with a 12-digit UTR that is at least two minutes old writes             *)
(* status = Approved and the credited user balance in one multi-path       *)
(* update.  The store is shared with an external writer; the script may    *)
(* run as several instances.  Time is the UTC wall clock in seconds.       *)
(***************************************************************************)
EXTENDS Integers, Sequences, FiniteSets, TLC

VARIABLES
    transactions,   \* store: db.reference('transactions'), user -> node
    users,          \* store: db.reference('users'), user -> record
    now,            \* UTC wall clock, seconds
    pc,             \* per instance: position in the script
    exitStatus,     \* per instance: process exit status, -1 while running
    snapshot,       \* per instance: all_transactions of the current scan
    todo,           \* per instance: the entries the two for-loops still visit
    scanStart,      \* per instance: clock value printed at the start of the scan
    newBalance,     \* per instance: updated_balance of the approve in progress
    wakeAt,         \* per instance: end of the current time.sleep(60)
    log             \* per instance: lines printed by the current scan

vars == <<transactions, users, now, pc, exitStatus, snapshot, todo, scanStart,
          newBalance, wakeAt, log>>

storeVars == <<transactions, users>>

(* ------------------------------ bounds --------------------------------- *)

MaxNow == 120
MaxTxns == 2
MaxIrregular == 1
MaxUtrLen == 13

(* ------------------------- program constants --------------------------- *)

GRACE_SECONDS == 120
SLEEP_SECONDS == 60
UTR_LEN == 12

Users == {"u1", "u2"}
Keys == {"k1", "k2"}
\* The paths transactions/{user}/{key} the model's external writer uses.
Slots == {<<"u1", "k1">>, <<"u1", "k2">>, <<"u2", "k1">>}
UserOrder == <<"u1", "u2">>
KeyOrder == <<"k1", "k2">>
Instances == {1, 2}

(* ------------------------------ values --------------------------------- *)

\* JSON values as the Python client returns them, tagged by Python type.
NoneVal == [t |-> "none", v |-> 0]
IntVal(n) == [t |-> "int", v |-> n]
BoolTrue == [t |-> "bool", v |-> 1]
StrAmount == [t |-> "str", v |-> 0]

\* A transactionId: None, a str (its characters), or an int.  An int is
\* hi * 10^6 + n, in two limbs so that 12-digit values fit.
NoUtr == [t |-> "none", s |-> <<>>, n |-> 0, hi |-> 0]
StrUtr(s) == [t |-> "str", s |-> s, n |-> 0, hi |-> 0]
IntUtr(n) == [t |-> "int", s |-> <<>>, n |-> n, hi |-> 0]
BigIntUtr(hi, lo) == [t |-> "int", s |-> <<>>, n |-> lo, hi |-> hi]

NoDate == [t |-> "none", wall |-> 0, sfx |-> ""]
NumDate == [t |-> "num", wall |-> 1, sfx |-> ""]
StrDate(w, sfx) == [t |-> "str", wall |-> w, sfx |-> sfx]

Digit == {"0", "1", "2", "3", "4", "5", "6", "7", "8", "9"}
\* What \d matches in a str pattern: every Unicode decimal digit (category
\* Nd).  "U+0663" stands for one that is not ASCII (ARABIC-INDIC DIGIT THREE).
DecimalDigit == Digit \cup {"U+0663"}
DigitChars == <<"0", "1", "2", "3", "4", "5", "6", "7", "8", "9">>

Utr12 == <<"1", "2", "3", "4", "5", "6", "7", "8", "9", "0", "1", "2">>
Utr11 == SubSeq(Utr12, 1, 11)
Utr12Letter == [Utr12 EXCEPT ![12] = "a"]

NoEntry == [shape |-> "absent", status |-> "", amount |-> NoneVal,
            utr |-> NoUtr, date |-> NoDate]
OtherEntry == [NoEntry EXCEPT !.shape = "other"]
Txn(status, amount, utr, date) ==
    [shape |-> "dict", status |-> status, amount |-> amount,
     utr |-> utr, date |-> date]

NoNode == [shape |-> "absent", items |-> [k \in Keys |-> NoEntry]]
OtherNode == [NoNode EXCEPT !.shape = "other"]

NoUser == [kind |-> "nouser", v |-> 0]
NoBalance == [kind |-> "nobalance", v |-> 0]
StrBalance == [kind |-> "str", v |-> 0]
NumBalance(n) == [kind |-> "num", v |-> n]

(* --------------------------- pure functions ---------------------------- *)

\* Python truthiness of a value read from a record (None, 0 and "" are falsy).
TruthyUtr(utr) ==
    CASE utr.t = "none" -> FALSE
      [] utr.t = "int" -> utr.n # 0 \/ utr.hi # 0
      [] OTHER -> Len(utr.s) > 0

TruthyDate(date) ==
    CASE date.t = "none" -> FALSE
      [] date.t = "num" -> date.wall # 0
      [] OTHER -> TRUE

\* str(n) for a non-negative int: its decimal digits.
RECURSIVE IntToStr(_)
IntToStr(n) ==
    IF n < 10 THEN <<DigitChars[n + 1]>>
    ELSE Append(IntToStr(n \div 10), DigitChars[(n % 10) + 1])

\* The six decimal digits of a low limb, zero-padded.
LowLimbStr(n) ==
    LET s == IntToStr(n)
    IN  [j \in 1..(6 - Len(s)) |-> "0"] \o s

PyStr(utr) ==
    CASE utr.t = "str" -> utr.s
      [] utr.t = "int" /\ utr.hi = 0 -> IntToStr(utr.n)
      [] utr.t = "int" /\ utr.hi # 0 -> IntToStr(utr.hi) \o LowLimbStr(utr.n)
      [] OTHER -> <<"N", "o", "n", "e">>

\* re.match in place of re.fullmatch: a valid prefix is enough.
is_valid_utr_prefix(utr) ==
    LET s == PyStr(utr)
    IN  /\ Len(s) >= UTR_LEN
        /\ \A j \in 1..UTR_LEN : s[j] \in DecimalDigit

\* re.fullmatch(r'\d{12}', str(utr))
is_valid_utr(utr) ==
    LET s == PyStr(utr)
    IN  /\ Len(s) = UTR_LEN
        /\ \A j \in 1..Len(s) : s[j] \in DecimalDigit

\* date_str.replace('Z', '+00:00')
ReplaceZ(sfx) == IF sfx = "Z" THEN "+00:00" ELSE sfx

ParseableSuffix == {"", "+00:00", "-05:00", "+05:30"}

\* UTC offset in seconds denoted by an ISO-8601 offset suffix.
TzOffset(sfx) ==
    CASE sfx = "-05:00" -> -18000
      [] sfx = "+05:30" -> 19800
      [] OTHER -> 0

\* datetime.fromisoformat(date_str.replace('Z', '+00:00')): "ok", or the
\* exception raised ("attr": a non-string has no replace; "value": not ISO).
ParseDate(date) ==
    IF date.t # "str"
    THEN [res |-> "attr", wall |-> 0, aware |-> FALSE, off |-> 0]
    ELSE LET sfx == ReplaceZ(date.sfx)
         IN  IF sfx \notin ParseableSuffix
             THEN [res |-> "value", wall |-> 0, aware |-> FALSE, off |-> 0]
             ELSE [res |-> "ok", wall |-> date.wall, aware |-> sfx # "",
                   off |-> TzOffset(sfx)]

\* datetime.utcnow().replace(tzinfo=transaction_time.tzinfo)
CurrentTimeUtc(clock, t) ==
    [res |-> "ok", wall |-> clock, aware |-> t.aware, off |-> t.off]

\* a - b for two datetimes of the same awareness, in seconds.
DatetimeSub(a, b) ==
    IF a.aware THEN (a.wall - a.off) - (b.wall - b.off) ELSE a.wall - b.wall

\* time_difference = current_time_utc - transaction_time
TimeDifference(clock, t) == DatetimeSub(CurrentTimeUtc(clock, t), t)

\* A comparison that leaves out the boundary.
OlderThanGrace(diff) == diff > GRACE_SECONDS

\* time_difference >= timedelta(minutes=2)
OldEnough(diff) == diff >= GRACE_SECONDS

\* status == 'Pending' and utr and date_str
IsCandidate(d) ==
    d.status = "Pending" /\ TruthyUtr(d.utr) /\ TruthyDate(d.date)

\* status == 'Pending' and (not utr or not date_str)
IsIncomplete(d) ==
    d.status = "Pending" /\ (~TruthyUtr(d.utr) \/ ~TruthyDate(d.date))

\* approve: status != 'Pending' on the transaction_data it was handed
ApproveStatusOk(d) == d.status = "Pending"

\* approve: isinstance(amount, (int, float)) and not amount < 0
\* (bool is a subclass of int: True passes and counts as 1).
ApproveAmountOk(amount) == amount.t \in {"int", "bool"} /\ ~(amount.v < 0)

\* user_snapshot.get('balance', 0) if user_snapshot else 0
CurrentBalance(usr) == IF usr.kind = "num" THEN usr.v ELSE 0

\* current_balance + amount raises TypeError for a non-numeric balance
BalanceAddable(usr) == usr.kind # "str"

\* A sum that forgets the balance it read.
AmountOnly(usr, amount) == amount.v

UpdatedBalance(usr, amount) == CurrentBalance(usr) + amount.v

\* A status write that leaves the value as it was.
UnchangedStatus == "Pending"

\* 'Approved', the status approve writes
ApprovedStatus == "Approved"

(* ------------------------ iteration of a snapshot ---------------------- *)

IsMapping(x) == x.shape = "dict"

\* Entries visited under one user node, in key order; a non-mapping node is
\* visited once (key "-") and skipped.
NodeItems(snap, u) ==
    CASE snap[u].shape = "absent" -> <<>>
      [] snap[u].shape = "other" -> <<[u |-> u, k |-> "-"]>>
      [] OTHER ->
          LET RECURSIVE Walk(_)
              Walk(j) ==
                  IF j > Len(KeyOrder) THEN <<>>
                  ELSE (IF snap[u].items[KeyOrder[j]].shape = "absent"
                        THEN <<>>
                        ELSE <<[u |-> u, k |-> KeyOrder[j]]>>) \o Walk(j + 1)
          IN  Walk(1)

\* for user_id, user_transactions in all_transactions.items(): for ...
Items(snap) ==
    LET RECURSIVE Walk(_)
        Walk(j) ==
            IF j > Len(UserOrder) THEN <<>>
            ELSE NodeItems(snap, UserOrder[j]) \o Walk(j + 1)
    IN  Walk(1)

\* not all_transactions
IsEmptySnapshot(snap) == \A u \in Users : snap[u].shape = "absent"

Present == {uk \in Slots : transactions[uk[1]].items[uk[2]].shape # "absent"}

(* ------------------------------ initial state -------------------------- *)

UserChoices == {NoUser, NoBalance, StrBalance, NumBalance(1000)}

EmptyStore == [u \in Users |-> NoNode]

Init ==
    /\ transactions = EmptyStore
    /\ \E c \in UserChoices : users = [u \in Users |-> c]
    /\ now = 0
    /\ pc = [i \in Instances |-> "boot"]
    /\ exitStatus = [i \in Instances |-> -1]
    /\ snapshot = [i \in Instances |-> EmptyStore]
    /\ todo = [i \in Instances |-> <<>>]
    /\ scanStart = [i \in Instances |-> 0]
    /\ newBalance = [i \in Instances |-> 0]
    /\ wakeAt = [i \in Instances |-> 0]
    /\ log = [i \in Instances |-> {}]

(* ------------------------------ environment ---------------------------- *)

GoodUtr == StrUtr(Utr12)
DateWalls == {-60, 1}
GoodDate == StrDate(-60, "Z")

\* What the external writer may store as a new transaction: a well-formed
\* Pending record, or a record with one field missing or ill-typed, or a
\* value that is no mapping at all.
RegularChoices ==
    {Txn("Pending", IntVal(500), GoodUtr, StrDate(w, "Z")) : w \in DateWalls}
    \cup {OtherEntry}

IrregularChoices ==
    {Txn("Pending", IntVal(500), GoodUtr, d) :
        d \in {StrDate(-60, "-05:00"), StrDate(-60, "+05:30"),
               StrDate(-60, "?"), NumDate, NoDate}}
    \cup {Txn("Pending", IntVal(500), r, GoodDate) :
            r \in {StrUtr(Utr11), NoUtr}}
    \cup {Txn("Pending", a, GoodUtr, GoodDate) :
            a \in {IntVal(-10), IntVal(0), BoolTrue, StrAmount}}

NewTxnChoices == RegularChoices \cup IrregularChoices

StoreSize ==
    Cardinality(Present) + Cardinality({u \in Users : transactions[u].shape = "other"})

Irregular ==
    {uk \in Present : [transactions[uk[1]].items[uk[2]] EXCEPT !.status = "Pending"]
                          \in IrregularChoices}

instVars == <<pc, exitStatus, snapshot, todo, scanStart, newBalance, wakeAt, log>>

\* A record added while a scan is working on its snapshot is seen by the
\* next fetch only: the writer's additions are placed between scans.
NoScanRunning ==
    \A i \in Instances : pc[i] \notin {"iter", "read", "write", "returned"}

\* The external writer adds a transaction under a key that does not exist.
CreateTxn(u, k, d) ==
    /\ NoScanRunning
    /\ StoreSize < MaxTxns
    /\ <<u, k>> \in Slots
    /\ d \in IrregularChoices => Cardinality(Irregular) < MaxIrregular
    /\ transactions[u].shape # "other"
    /\ transactions[u].items[k].shape = "absent"
    /\ transactions' = [transactions EXCEPT
                           ![u] = [shape |-> "dict",
                                   items |-> [@.items EXCEPT ![k] = d]]]
    /\ UNCHANGED <<users, now, instVars>>

\* The external writer stores a non-mapping value as a user's node.
CreateMalformedUser(u) ==
    /\ NoScanRunning
    /\ StoreSize < MaxTxns
    /\ transactions[u].shape = "absent"
    /\ transactions' = [transactions EXCEPT ![u] = OtherNode]
    /\ UNCHANGED <<users, now, instVars>>

\* The external writer changes the status of an existing Pending transaction.
ExternalSetStatus(u, k, st) ==
    /\ transactions[u].shape = "dict"
    /\ transactions[u].items[k].shape = "dict"
    /\ transactions[u].items[k].status = "Pending"
    /\ transactions' = [transactions EXCEPT ![u].items[k].status = st]
    /\ UNCHANGED <<users, now, instVars>>

\* Time passes (in steps of the poll interval), at any point of a scan.
Tick ==
    /\ now + SLEEP_SECONDS <= MaxNow
    /\ now' = now + SLEEP_SECONDS
    /\ UNCHANGED <<storeVars, instVars>>

(* ------------------------------- startup ------------------------------- *)

\* os.path.exists(SERVICE_ACCOUNT_KEY_PATH) is false: print, exit()
StartupNoKeyFile(i) ==
    /\ pc[i] = "boot"
    /\ pc' = [pc EXCEPT ![i] = "exited"]
    /\ exitStatus' = [exitStatus EXCEPT ![i] = 0]
    /\ UNCHANGED <<storeVars, now, snapshot, todo, scanStart, newBalance,
                   wakeAt, log>>

\* credentials.Certificate / initialize_app raises: print, exit()
StartupInitFails(i) ==
    /\ pc[i] = "boot"
    /\ pc' = [pc EXCEPT ![i] = "exited"]
    /\ exitStatus' = [exitStatus EXCEPT ![i] = 0]
    /\ UNCHANGED <<storeVars, now, snapshot, todo, scanStart, newBalance,
                   wakeAt, log>>

\* initialisation succeeds and __main__ enters `while True`
StartupOk(i) ==
    /\ pc[i] = "boot"
    /\ pc' = [pc EXCEPT ![i] = "loop"]
    /\ UNCHANGED <<storeVars, now, exitStatus, snapshot, todo, scanStart,
                   newBalance, wakeAt, log>>

(* -------------------------------- scan --------------------------------- *)

Cur(i) == Head(todo[i])
CurNode(i) == snapshot[i][Cur(i).u]
CurData(i) == CurNode(i).items[Cur(i).k]
Event(e, i) == [e |-> e, u |-> Cur(i).u, k |-> Cur(i).k]

\* The loops move on to the next entry; after the last one the scan returns.
Continue(i) ==
    /\ todo' = [todo EXCEPT ![i] = Tail(@)]
    /\ pc' = [pc EXCEPT ![i] = IF Len(todo[i]) > 1 THEN "iter" ELSE "returned"]
    /\ UNCHANGED wakeAt

\* A step of the loop body that prints the lines `evs` and writes nothing.
SkipWith(i, evs) ==
    /\ log' = [log EXCEPT ![i] = @ \cup evs]
    /\ Continue(i)
    /\ UNCHANGED <<storeVars, now, exitStatus, snapshot, scanStart, newBalance>>

\* all_transactions = transactions_ref.get() raises: nothing catches it.
FetchFails(i) ==
    /\ pc[i] = "loop"
    /\ pc' = [pc EXCEPT ![i] = "crashed"]
    /\ exitStatus' = [exitStatus EXCEPT ![i] = 1]
    /\ log' = [log EXCEPT ![i] = {}]
    /\ scanStart' = [scanStart EXCEPT ![i] = now]
    /\ UNCHANGED <<storeVars, now, snapshot, todo, newBalance, wakeAt>>

\* The snapshot a scan works on: the whole transactions collection, read anew.
FetchedSnapshot(i) == transactions

\* the fetch returns nothing: "No transactions found", return
FetchEmpty(i) ==
    /\ pc[i] = "loop"
    /\ IsEmptySnapshot(FetchedSnapshot(i))
    /\ snapshot' = [snapshot EXCEPT ![i] = FetchedSnapshot(i)]
    /\ log' = [log EXCEPT ![i] = {}]
    /\ scanStart' = [scanStart EXCEPT ![i] = now]
    /\ todo' = [todo EXCEPT ![i] = <<>>]
    /\ pc' = [pc EXCEPT ![i] = "returned"]
    /\ UNCHANGED <<storeVars, now, exitStatus, newBalance, wakeAt>>

\* the fetch returns the collection and the loops start
Fetch(i) ==
    /\ pc[i] = "loop"
    /\ ~IsEmptySnapshot(FetchedSnapshot(i))
    /\ snapshot' = [snapshot EXCEPT ![i] = FetchedSnapshot(i)]
    /\ log' = [log EXCEPT ![i] = {}]
    /\ scanStart' = [scanStart EXCEPT ![i] = now]
    /\ todo' = [todo EXCEPT ![i] = Items(FetchedSnapshot(i))]
    /\ pc' = [pc EXCEPT ![i] = "iter"]
    /\ UNCHANGED <<storeVars, now, exitStatus, newBalance, wakeAt>>

\* not isinstance(user_transactions, dict): print, continue
SkipMalformedUser(i) ==
    /\ pc[i] = "iter"
    /\ ~IsMapping(CurNode(i))
    /\ SkipWith(i, {Event("malformed_user", i)})

\* A malformed transaction that ends the scan instead of being skipped.
MalformedTxnEndsScan(i) ==
    /\ pc[i] = "iter"
    /\ IsMapping(CurNode(i))
    /\ ~IsMapping(CurData(i))
    /\ log' = [log EXCEPT ![i] = @ \cup {Event("malformed_txn", i)}]
    /\ todo' = [todo EXCEPT ![i] = <<>>]
    /\ pc' = [pc EXCEPT ![i] = "returned"]
    /\ UNCHANGED <<storeVars, now, exitStatus, snapshot, scanStart, newBalance,
                   wakeAt>>

\* not isinstance(transaction_data, dict): print, continue
SkipMalformedTxn(i) ==
    /\ pc[i] = "iter"
    /\ IsMapping(CurNode(i))
    /\ ~IsMapping(CurData(i))
    /\ SkipWith(i, {Event("malformed_txn", i)})

WellFormed(i) == IsMapping(CurNode(i)) /\ IsMapping(CurData(i))

\* neither branch of the if/elif on status: nothing happens
SkipNotPending(i) ==
    /\ pc[i] = "iter"
    /\ WellFormed(i)
    /\ ~IsCandidate(CurData(i))
    /\ ~IsIncomplete(CurData(i))
    /\ SkipWith(i, {})

\* Pending with a missing UTR or date: print
SkipIncomplete(i) ==
    /\ pc[i] = "iter"
    /\ WellFormed(i)
    /\ ~IsCandidate(CurData(i))
    /\ IsIncomplete(CurData(i))
    /\ SkipWith(i, {Event("missing_field", i)})

\* not is_valid_utr(utr): print, continue
SkipInvalidUtr(i) ==
    /\ pc[i] = "iter"
    /\ WellFormed(i)
    /\ IsCandidate(CurData(i))
    /\ ~is_valid_utr(CurData(i).utr)
    /\ SkipWith(i, {Event("invalid_utr", i)})

Checked(i) ==
    /\ pc[i] = "iter"
    /\ WellFormed(i)
    /\ IsCandidate(CurData(i))
    /\ is_valid_utr(CurData(i).utr)

\* fromisoformat raises ValueError: caught, printed
DateValueError(i) ==
    /\ Checked(i)
    /\ ParseDate(CurData(i).date).res = "value"
    /\ SkipWith(i, {Event("bad_date", i)})

\* date_str.replace raises (not a string): caught by `except Exception`
DateOtherError(i) ==
    /\ Checked(i)
    /\ ParseDate(CurData(i).date).res = "attr"
    /\ SkipWith(i, {Event("unexpected_error", i)})

Parsed(i) == Checked(i) /\ ParseDate(CurData(i).date).res = "ok"

Elapsed(i) == TimeDifference(now, ParseDate(CurData(i).date))

\* still within the two-minute window: nothing is printed or written
WithinWindow(i) ==
    /\ Parsed(i)
    /\ ~OldEnough(Elapsed(i))
    /\ SkipWith(i, {})

\* old enough: approve is called and returns at its status or amount check
ApproveRejects(i) ==
    /\ Parsed(i)
    /\ OldEnough(Elapsed(i))
    /\ ~(ApproveStatusOk(CurData(i)) /\ ApproveAmountOk(CurData(i).amount))
    /\ SkipWith(i, {Event("approving", i),
                    IF ~ApproveStatusOk(CurData(i))
                    THEN Event("no_longer_pending", i)
                    ELSE Event("invalid_amount", i)})

\* old enough: approve is called, passes its checks and goes to read the balance
ApproveBegins(i) ==
    /\ Parsed(i)
    /\ OldEnough(Elapsed(i))
    /\ ApproveStatusOk(CurData(i))
    /\ ApproveAmountOk(CurData(i).amount)
    /\ log' = [log EXCEPT ![i] = @ \cup {Event("approving", i)}]
    /\ pc' = [pc EXCEPT ![i] = "read"]
    /\ UNCHANGED <<storeVars, now, exitStatus, snapshot, todo, scanStart,
                   newBalance, wakeAt>>

(* ------------------------------- approve ------------------------------- *)

\* users_ref.child(user_id).get() raises: caught in approve, printed
ReadFails(i) ==
    /\ pc[i] = "read"
    /\ SkipWith(i, {Event("read_failed", i)})

\* the balance read returns a value that cannot be added to: TypeError, caught
ReadUnusable(i) ==
    /\ pc[i] = "read"
    /\ ~BalanceAddable(users[Cur(i).u])
    /\ SkipWith(i, {Event("balance_type_error", i)})

\* the balance read returns; updated_balance = current_balance + amount
ReadBalance(i) ==
    /\ pc[i] = "read"
    /\ BalanceAddable(users[Cur(i).u])
    /\ newBalance' = [newBalance EXCEPT
                         ![i] = UpdatedBalance(users[Cur(i).u], CurData(i).amount)]
    /\ pc' = [pc EXCEPT ![i] = "write"]
    /\ UNCHANGED <<storeVars, now, exitStatus, snapshot, todo, scanStart,
                   wakeAt, log>>

\* A failed update that has stored the balance path all the same.
WriteFailsHalfDone(i) ==
    /\ pc[i] = "write"
    /\ users' = [users EXCEPT ![Cur(i).u] = NumBalance(newBalance[i])]
    /\ log' = [log EXCEPT ![i] = @ \cup {Event("write_failed", i)}]
    /\ Continue(i)
    /\ UNCHANGED <<transactions, now, exitStatus, snapshot, scanStart,
                   newBalance>>

\* db.reference('/').update(updates) raises: nothing is written; caught
WriteFails(i) ==
    /\ pc[i] = "write"
    /\ SkipWith(i, {Event("write_failed", i)})

\* An update that loses the status path.
StatusPathLost(i) == transactions

\* The store after db.reference('/').update(updates): both paths at once.
\* Writing a path creates the nodes above it.
UpdatedTransactions(i) ==
    [transactions EXCEPT
        ![Cur(i).u] = [shape |-> "dict",
                       items |-> [@.items EXCEPT
                           ![Cur(i).k] = [@ EXCEPT !.shape = "dict",
                                                   !.status = ApprovedStatus]]]]

\* An update that loses the balance path.
StatusOnlyUsers(i) == users

UpdatedUsers(i) == [users EXCEPT ![Cur(i).u] = NumBalance(newBalance[i])]

\* An update that stores the user's transactions node anew, holding the
\* approved transaction only.
WriteReplacesNode(i) ==
    /\ pc[i] = "write"
    /\ transactions' =
          [transactions EXCEPT
              ![Cur(i).u] =
                  [shape |-> "dict",
                   items |-> [k \in Keys |->
                       IF k = Cur(i).k
                       THEN [transactions[Cur(i).u].items[k] EXCEPT
                                !.shape = "dict", !.status = ApprovedStatus]
                       ELSE NoEntry]]]
    /\ users' = UpdatedUsers(i)
    /\ log' = [log EXCEPT ![i] = @ \cup {Event("approved", i)}]
    /\ Continue(i)
    /\ UNCHANGED <<now, exitStatus, snapshot, scanStart, newBalance>>

\* the combined update succeeds
WriteOk(i) ==
    /\ pc[i] = "write"
    /\ transactions' = UpdatedTransactions(i)
    /\ users' = UpdatedUsers(i)
    /\ log' = [log EXCEPT ![i] = @ \cup {Event("approved", i)}]
    /\ Continue(i)
    /\ UNCHANGED <<now, exitStatus, snapshot, scanStart, newBalance>>

\* The scan has returned (its locals are gone); __main__ prints "Sleeping
\* for 60 seconds" and calls time.sleep(60).  The log holds the lines of one
\* scan, up to this line.
Sleep(i) ==
    /\ pc[i] = "returned"
    /\ pc' = [pc EXCEPT ![i] = "sleep"]
    /\ wakeAt' = [wakeAt EXCEPT ![i] = now + SLEEP_SECONDS]
    /\ snapshot' = [snapshot EXCEPT ![i] = EmptyStore]
    /\ scanStart' = [scanStart EXCEPT ![i] = 0]
    /\ newBalance' = [newBalance EXCEPT ![i] = 0]
    /\ log' = [log EXCEPT ![i] = {}]
    /\ UNCHANGED <<storeVars, now, exitStatus, todo>>

\* time.sleep(60) returns
Wake(i) ==
    /\ pc[i] = "sleep"
    /\ now >= wakeAt[i]
    /\ pc' = [pc EXCEPT ![i] = "loop"]
    /\ wakeAt' = [wakeAt EXCEPT ![i] = 0]
    /\ UNCHANGED <<storeVars, now, exitStatus, snapshot, todo, scanStart,
                   newBalance, log>>

(* ---------------------------- specifications --------------------------- *)

Run(i) ==
    \/ StartupNoKeyFile(i)
    \/ StartupInitFails(i)
    \/ StartupOk(i)
    \/ FetchFails(i)
    \/ FetchEmpty(i)
    \/ Fetch(i)
    \/ SkipMalformedUser(i)
    \/ SkipMalformedTxn(i)
    \/ SkipNotPending(i)
    \/ SkipIncomplete(i)
    \/ SkipInvalidUtr(i)
    \/ DateValueError(i)
    \/ DateOtherError(i)
    \/ WithinWindow(i)
    \/ ApproveRejects(i)
    \/ ApproveBegins(i)
    \/ ReadFails(i)
    \/ ReadUnusable(i)
    \/ ReadBalance(i)
    \/ WriteFails(i)
    \/ WriteOk(i)
    \/ Sleep(i)
    \/ Wake(i)

Creates ==
    \/ \E u \in Users, k \in Keys, d \in NewTxnChoices : CreateTxn(u, k, d)
    \/ \E u \in Users : CreateMalformedUser(u)

\* One instance of the script; the external writer only adds transactions.
Next == Run(1) \/ Creates \/ Tick

Spec == Init /\ [][Next]_vars

\* One instance; the external writer also changes the status of transactions.
NextExt ==
    \/ Next
    \/ \E uk \in Slots : ExternalSetStatus(uk[1], uk[2], "Rejected")

SpecExt == Init /\ [][NextExt]_vars

(* ------------------------------ properties ----------------------------- *)

Entry(uk) == transactions[uk[1]].items[uk[2]]
EntryNext(uk) == transactions'[uk[1]].items[uk[2]]
CurSlot(i) == <<Cur(i).u, Cur(i).k>>
Logged(i, e, uk) == [e |-> e, u |-> uk[1], k |-> uk[2]] \in log[i]

\* The readings of the specification, stated apart from the code's.
SpecBalance(usr) == IF usr.kind = "num" THEN usr.v ELSE 0
SpecAmountOk(a) == a.t = "int" /\ a.v >= 0
SpecOffset(sfx) ==
    CASE sfx = "-05:00" -> -(5 * 3600)
      [] sfx = "+05:30" -> 5 * 3600 + 30 * 60
      [] OTHER -> 0
\* Seconds between the instant a timestamp denotes and the instant `clock`.
SpecAge(clock, date) == clock - (date.wall - SpecOffset(date.sfx))
SpecRefOk(utr) ==
    utr.t = "str" /\ Len(utr.s) = 12 /\ \A j \in 1..Len(utr.s) : utr.s[j] \in Digit

\* Instance i's combined update is applied in this step.
Approves(i) ==
    pc[i] = "write" /\ pc'[i] # "write" /\ Event("approved", i) \in log'[i]

BecomesApproved(uk) ==
    Entry(uk).status # "Approved" /\ EntryNext(uk).status = "Approved"

Credited(uk) ==
    users' = [users EXCEPT ![uk[1]] =
                 NumBalance(SpecBalance(users[uk[1]]) + Entry(uk).amount.v)]

\* Instance i finishes the loop body for the entry at the head of todo[i].
LeavesEntry(i) == pc[i] = "iter" /\ (pc'[i] # "iter" \/ todo'[i] # todo[i])

(* C1: with one instance and a writer that only adds transactions, every
   approval acts on a transaction that is Pending in the store, turns it
   Approved and adds its amount once to the owner's balance; an Approved
   transaction never changes again, and balances change in no other step.
   Hence no transaction is approved or credited twice. *)
C1_ApprovedAndCreditedAtMostOnce ==
    [][/\ \A i \in Instances :
            Approves(i) =>
                /\ Entry(CurSlot(i)).status = "Pending"
                /\ BecomesApproved(CurSlot(i))
                /\ Credited(CurSlot(i))
       /\ \A uk \in Slots :
            Entry(uk).status = "Approved" => EntryNext(uk) = Entry(uk)
       /\ users' # users => \E i \in Instances : Approves(i)
      ]_vars

\* C1 witness: a scan that ran after an approval left the transaction
\* Approved with its amount in the balance exactly once.
C1_Witness ==
    /\ pc[1] = "returned"
    /\ scanStart[1] = 120
    /\ snapshot[1]["u1"].items["k1"].status = "Approved"
    /\ snapshot[1]["u1"].items["k1"].amount = IntVal(500)
    /\ Cardinality(Present) = 1
    /\ users["u1"] = NumBalance(1500)

(* C2: the status change and the balance credit happen in the same step or
   not at all: a step turns a transaction Approved iff it also sets the
   owner's balance to the old balance plus the amount, and a failed write
   leaves both collections as they were. *)
C2_StatusAndBalanceTogether ==
    [][/\ \A uk \in Slots : BecomesApproved(uk) => Credited(uk)
       /\ users' # users => \E uk \in Slots : BecomesApproved(uk) /\ Credited(uk)
       /\ \A i \in Instances :
            (pc[i] = "write" /\ Event("write_failed", i) \in log'[i])
                => UNCHANGED storeVars
      ]_vars

\* C2 witness: in one scan a write failed (nothing changed for k1) and a
\* write succeeded (k2 Approved and credited).
C2_Witness ==
    /\ Logged(1, "write_failed", <<"u1", "k1">>)
    /\ Logged(1, "approved", <<"u1", "k2">>)
    /\ Entry(<<"u1", "k1">>).status = "Pending"
    /\ Entry(<<"u1", "k2">>).status = "Approved"
    /\ users["u1"] = NumBalance(1500)

(* C3 (as claimed): when the transaction is no longer Pending in the store
   at the time approve acts, approve writes nothing. *)
C3_NoWriteWhenNoLongerPending ==
    [][\A i \in Instances :
          (pc[i] = "write" /\ pc'[i] # "write"
              /\ Entry(CurSlot(i)).status # "Pending")
          => UNCHANGED storeVars
      ]_vars

(* C4: a successful approve of a transaction with a non-negative numeric
   amount a leaves its status Approved and the owner's balance b + a, b
   being the balance just before (0 when the user or the field is absent). *)
C4_BalanceIsOldPlusAmount ==
    [][\A i \in Instances :
          (Approves(i) /\ SpecAmountOk(Entry(CurSlot(i)).amount)) =>
              /\ EntryNext(CurSlot(i)).status = "Approved"
              /\ users'[Cur(i).u].kind = "num"
              /\ users'[Cur(i).u].v =
                    SpecBalance(users[Cur(i).u]) + Entry(CurSlot(i)).amount.v
      ]_vars

\* C4 witness: amount 500 approved for a user with no record: balance 500.
C4_Witness ==
    /\ Logged(1, "approved", <<"u2", "k1">>)
    /\ Entry(<<"u2", "k1">>).amount = IntVal(500)
    /\ Entry(<<"u2", "k1">>).status = "Approved"
    /\ users["u2"] = NumBalance(500)
    /\ users["u1"] = NoUser

(* C5 (as claimed): no step of approve writes to the store for a
   transaction whose amount is negative or not a number. *)
C5_NoWriteForBadAmount ==
    [][\A i \in Instances :
          (pc[i] = "write" /\ pc'[i] # "write"
              /\ ~SpecAmountOk(CurData(i).amount))
          => UNCHANGED storeVars
      ]_vars

(* C6 (as claimed): for a Pending transaction with a valid reference and a
   parseable timestamp, approve is invoked iff the time elapsed since the
   instant the timestamp denotes is at least two minutes. *)
C6_ApproveIffTwoMinutesOld ==
    [][\A i \in Instances :
          (Parsed(i) /\ LeavesEntry(i)) =>
              (Event("approving", i) \in log'[i]
                  <=> SpecAge(now, CurData(i).date) >= 2 * 60)
      ]_vars

(* C7 (as claimed): a transaction changes only from Pending to Approved,
   only its status changes, and only when it has a reference and a
   timestamp, the reference is valid and its age is at least two minutes;
   balances change only together with such a transition. *)
C7_OnlyPendingToApprovedWhenEligible ==
    [][/\ \A uk \in Slots :
            (Entry(uk).shape # "absent" /\ EntryNext(uk) # Entry(uk)) =>
                /\ Entry(uk).shape = "dict"
                /\ Entry(uk).status = "Pending"
                /\ EntryNext(uk) = [Entry(uk) EXCEPT !.status = "Approved"]
                /\ Entry(uk).utr.t # "none"
                /\ Entry(uk).date.t = "str"
                /\ SpecRefOk(Entry(uk).utr)
                /\ SpecAge(now, Entry(uk).date) >= 2 * 60
       /\ users' # users => \E uk \in Slots : BecomesApproved(uk)
      ]_vars

(* C8 (as claimed): no failure during a scan ends the loop. *)
C8_LoopSurvivesFailures == \A i \in Instances : pc[i] # "crashed"

\* The lines a finished scan must have printed for the entry `it` of its
\* snapshot, given the clock values at its start and now.
Outcome(i, it) ==
    LET node == snapshot[i][it.u]
        d == node.items[it.k]
        uk == <<it.u, it.k>>
        t == ParseDate(d.date)
        done == {e \in {"approved", "read_failed", "write_failed",
                        "balance_type_error"} : Logged(i, e, uk)}
    IN  CASE ~IsMapping(node) -> Logged(i, "malformed_user", uk)
          [] ~IsMapping(d) -> Logged(i, "malformed_txn", uk)
          [] IsIncomplete(d) -> Logged(i, "missing_field", uk)
          [] ~IsCandidate(d) -> \A e \in log[i] : <<e.u, e.k>> # uk
          [] ~is_valid_utr(d.utr) -> Logged(i, "invalid_utr", uk)
          [] t.res = "value" -> Logged(i, "bad_date", uk)
          [] t.res = "attr" -> Logged(i, "unexpected_error", uk)
          [] OldEnough(TimeDifference(scanStart[i], t)) ->
                /\ Logged(i, "approving", uk)
                /\ IF ApproveAmountOk(d.amount)
                   THEN Cardinality(done) = 1
                   ELSE Logged(i, "invalid_amount", uk)
          [] ~OldEnough(TimeDifference(now, t)) ->
                \A e \in log[i] : <<e.u, e.k>> # uk
          [] OTHER -> TRUE

HasMalformed(snap) ==
    \E u \in Users :
        \/ snap[u].shape = "other"
        \/ \E k \in Keys : snap[u].items[k].shape = "other"

SeqRange(q) == {q[j] : j \in 1..Len(q)}

(* C9: a scan whose snapshot holds malformed entries still runs to its end
   without raising: every entry of the snapshot, before or after a
   malformed one, has had the outcome its own data decides, and the
   malformed entries were only reported. *)
C9_MalformedEntriesAreSkipped ==
    \A i \in Instances :
        /\ (pc[i] = "returned" /\ HasMalformed(snapshot[i])) =>
              \A it \in SeqRange(Items(snapshot[i])) : Outcome(i, it)
        /\ (pc[i] \in {"iter", "read", "write"}) =>
              \E n \in 1..Len(Items(snapshot[i])) :
                  todo[i] = SubSeq(Items(snapshot[i]), n, Len(Items(snapshot[i])))
        /\ pc[i] = "crashed" => (todo[i] = <<>> /\ log[i] = {})

\* C9 witness: a malformed entry came first and the transaction after it
\* was approved in the same scan.
C9_Witness ==
    /\ pc[1] = "returned"
    /\ snapshot[1]["u1"].items["k1"].shape = "other"
    /\ Logged(1, "malformed_txn", <<"u1", "k1">>)
    /\ Logged(1, "approved", <<"u1", "k2">>)
    /\ Entry(<<"u1", "k2">>).status = "Approved"

(* C10 (as claimed): a process that stopped at startup has a non-zero exit
   status and has never fetched or written anything. *)
C10_StartupFailureExitsNonZero ==
    \A i \in Instances :
        pc[i] = "exited" =>
            /\ exitStatus[i] # 0
            /\ snapshot[i] = EmptyStore
            /\ log[i] = {}

(* ----------------------- the reference check alone --------------------- *)

DigitsOfLen(n) == [j \in 1..n |-> DigitChars[(j % 10) + 1]]

\* Characters put in place of a digit: a letter, a space, a sign, and a
\* decimal digit that is not ASCII.
OddChars == {"a", " ", "-", "U+0663"}

\* Reference codes as the store can hold them: digit strings of every length
\* up to MaxUtrLen, the same with one character replaced at any position
\* (first and last included), integers, and None.
UtrInputs ==
    {StrUtr(DigitsOfLen(n)) : n \in 0..MaxUtrLen}
    \cup UNION {{StrUtr([DigitsOfLen(n) EXCEPT ![p] = c]) :
                    p \in 1..n, c \in OddChars} : n \in 1..MaxUtrLen}
    \cup {NoUtr, IntUtr(0), IntUtr(12345), BigIntUtr(12345, 678901),
          BigIntUtr(123456, 789012), BigIntUtr(123456, 12),
          BigIntUtr(1234567, 890123)}

\* One old Pending transaction of u1 carrying the reference code r.
InitUtr ==
    /\ \E r \in UtrInputs :
          transactions =
              [EmptyStore EXCEPT
                  !["u1"] = [shape |-> "dict",
                             items |-> [NoNode.items EXCEPT
                                 !["k1"] = Txn("Pending", IntVal(500), r,
                                               GoodDate)]]]
    /\ users = [u \in Users |-> NumBalance(1000)]
    /\ now = GRACE_SECONDS
    /\ pc = [i \in Instances |-> "boot"]
    /\ exitStatus = [i \in Instances |-> -1]
    /\ snapshot = [i \in Instances |-> EmptyStore]
    /\ todo = [i \in Instances |-> <<>>]
    /\ scanStart = [i \in Instances |-> 0]
    /\ newBalance = [i \in Instances |-> 0]
    /\ wakeAt = [i \in Instances |-> 0]
    /\ log = [i \in Instances |-> {}]

\* One scan of one instance over that store.
NextUtr ==
    \/ StartupOk(1)
    \/ Fetch(1)
    \/ SkipIncomplete(1)
    \/ SkipInvalidUtr(1)
    \/ ApproveBegins(1)
    \/ ReadBalance(1)
    \/ WriteOk(1)
    \/ Sleep(1)

SpecUtr == InitUtr /\ [][NextUtr]_vars

\* "Exactly 12 decimal digits", read off the value and not off str(): a
\* string of 12 characters that are all decimal digits, or an integer n with
\* 10^11 <= n < 10^12.  Decimal digit is taken as Unicode does (category Nd).
SpecDecimalDigit(c) ==
    c \in {"0", "1", "2", "3", "4", "5", "6", "7", "8", "9", "U+0663"}
SpecTwelveDigits(r) ==
    CASE r.t = "str" -> Len(r.s) = 12 /\ \A j \in 1..Len(r.s) : SpecDecimalDigit(r.s[j])
      [] r.t = "int" -> r.hi >= 100000 /\ r.hi <= 999999 /\ r.n >= 0 /\ r.n <= 999999
      [] OTHER -> FALSE

(* C11: is_valid_utr is true exactly of the reference codes whose string
   form is 12 decimal digits: false for 11 and 13 digits, for the empty
   string, for a non-digit at any position and for an extra leading or
   trailing character.  A scan calls approve for the transaction exactly
   when its code has that form, and otherwise reports it as invalid (or as
   missing when the code is falsy). *)
C11_ValidIffTwelveDigits ==
    \A uk \in Present :
        LET r == Entry(uk).utr
        IN  /\ is_valid_utr(r) <=> SpecTwelveDigits(r)
            /\ pc[1] = "returned" =>
                  /\ Logged(1, "approving", uk) <=> SpecTwelveDigits(r)
                  /\ Logged(1, "invalid_utr", uk) <=>
                         (~SpecTwelveDigits(r) /\ TruthyUtr(r))
                  /\ Logged(1, "missing_field", uk) <=> ~TruthyUtr(r)

\* A scan has approved a transaction whose code is a 12-digit string.
C11_Witness ==
    /\ pc[1] = "returned"
    /\ Entry(<<"u1", "k1">>).utr = GoodUtr
    /\ is_valid_utr(GoodUtr)
    /\ Logged(1, "approved", <<"u1", "k1">>)

(* ------------------------- balances and approvals ---------------------- *)

\* The transactions of user u that are Approved in the store.
ApprovedOf(u) ==
    {uk \in Present : uk[1] = u /\ Entry(uk).status = "Approved"}

RECURSIVE SumAmounts(_)
SumAmounts(S) ==
    IF S = {} THEN 0
    ELSE LET uk == CHOOSE x \in S : TRUE
         IN  Entry(uk).amount.v + SumAmounts(S \ {uk})

(* C12: with one instance and a writer that only adds Pending transactions,
   in every state each user's balance is the balance the user started with
   (a missing user or balance counting as 0) plus the sum of the amounts of
   exactly that user's Approved transactions; a user none of whose
   transactions is Approved has the user record they started with. *)
C12_BalanceIsInitialPlusApproved ==
    \E c \in UserChoices :
        \A u \in Users :
            IF ApprovedOf(u) = {}
            THEN users[u] = c
            ELSE users[u] = NumBalance(SpecBalance(c) + SumAmounts(ApprovedOf(u)))

\* Two transactions of u1 were approved within one scan and both amounts
\* are in u1's balance.
C12_Witness ==
    /\ pc[1] = "returned"
    /\ Logged(1, "approved", <<"u1", "k1">>)
    /\ Logged(1, "approved", <<"u1", "k2">>)
    /\ ApprovedOf("u1") = {<<"u1", "k1">>, <<"u1", "k2">>}
    /\ users["u1"] = NumBalance(2000)

(* ------------------------- two running instances ----------------------- *)

\* Stores for two instances: u1 has an old Pending transaction under k1;
\* k2 of u1 and k1 of u2 are absent or Pending (old or recent).
TwoChoices ==
    {NoEntry} \cup {Txn("Pending", IntVal(500), GoodUtr, StrDate(w, "Z")) :
                       w \in DateWalls}

InitTwo ==
    /\ \E a \in TwoChoices, b \in TwoChoices :
          transactions =
              [u \in Users |->
                  IF u = "u1"
                  THEN [shape |-> "dict",
                        items |-> [k \in Keys |->
                            IF k = "k1"
                            THEN Txn("Pending", IntVal(500), GoodUtr, GoodDate)
                            ELSE a]]
                  ELSE IF b = NoEntry THEN NoNode
                  ELSE [shape |-> "dict",
                        items |-> [NoNode.items EXCEPT !["k1"] = b]]]
    /\ users = [u \in Users |-> NumBalance(1000)]
    /\ now = 0
    /\ pc = [i \in Instances |-> "boot"]
    /\ exitStatus = [i \in Instances |-> -1]
    /\ snapshot = [i \in Instances |-> EmptyStore]
    /\ todo = [i \in Instances |-> <<>>]
    /\ scanStart = [i \in Instances |-> 0]
    /\ newBalance = [i \in Instances |-> 0]
    /\ wakeAt = [i \in Instances |-> 0]
    /\ log = [i \in Instances |-> {}]

\* The steps of an instance that these stores give rise to.
RunTwo(i) ==
    \/ StartupOk(i)
    \/ Fetch(i)
    \/ SkipNotPending(i)
    \/ WithinWindow(i)
    \/ ApproveBegins(i)
    \/ ReadBalance(i)
    \/ WriteOk(i)
    \/ Sleep(i)
    \/ Wake(i)

\* Two instances of the script run against the same store, their steps
\* interleaved in any order.
NextTwo == RunTwo(1) \/ RunTwo(2) \/ Tick

SpecTwo == InitTwo /\ [][NextTwo]_vars

\* The entry instance i is working on is, in its snapshot, a Pending
\* transaction with a 12-digit reference, a non-negative amount and a
\* timestamp at least two minutes old.
SnapshotEligible(i) ==
    /\ WellFormed(i)
    /\ CurData(i).status = "Pending"
    /\ SpecRefOk(CurData(i).utr)
    /\ SpecAmountOk(CurData(i).amount)
    /\ CurData(i).date.t = "str"
    /\ SpecAge(now, CurData(i).date) >= GRACE_SECONDS

(* C13: with two instances nothing stops a second approval.  An instance
   whose snapshot shows a transaction as Pending and eligible always
   passes the re-check and goes on to read the balance, whatever status the
   store holds by then; and its combined update, when applied, marks the
   transaction Approved and sets the owner's balance to the balance it read
   plus the amount, also when the other instance has approved and credited
   the same transaction in the meantime. *)
C13_SecondApprovalNotPrevented ==
    [][\A i \in Instances :
          /\ (LeavesEntry(i) /\ SnapshotEligible(i)) => pc'[i] = "read"
          /\ (pc[i] = "write" /\ pc'[i] # "write") =>
                /\ Event("approved", i) \in log'[i]
                /\ EntryNext(CurSlot(i)).status = "Approved"
                /\ users'[Cur(i).u] = NumBalance(newBalance[i])]_vars

\* Both instances have approved u1's only transaction in their current
\* scans, and its amount is in u1's balance twice.
C13_Witness ==
    /\ Logged(1, "approved", <<"u1", "k1">>)
    /\ Logged(2, "approved", <<"u1", "k1">>)
    /\ ApprovedOf("u1") = {<<"u1", "k1">>}
    /\ Entry(<<"u1", "k2">>).shape = "absent"
    /\ users["u1"] = NumBalance(1000 + 2 * Entry(<<"u1", "k1">>).amount.v)

(* ------------------------------ write failure -------------------------- *)

\* Instance i's combined update fails in this step.
WriteFailure(i) ==
    pc[i] = "write" /\ pc'[i] # "write" /\ Event("write_failed", i) \in log'[i]

(* C14: when the combined update fails, the failure is caught: the step
   leaves the store as it was (the transaction still Pending, the balance
   unchanged), the instance keeps running and moves on to the entries that
   remain in its scan, and the failed transaction is not among them.  A
   Pending transaction leaves that status only by an approval, and every
   later fetch takes every transaction that is Pending in the store into
   the new scan, as Pending. *)
C14_WriteFailureLeavesPending ==
    [][/\ WriteFailure(1) =>
            /\ transactions' = transactions
            /\ users' = users
            /\ Entry(CurSlot(1)).status = "Pending"
            /\ todo'[1] = Tail(todo[1])
            /\ Cur(1) \notin SeqRange(todo'[1])
            /\ pc'[1] = (IF todo'[1] = <<>> THEN "returned" ELSE "iter")
            /\ exitStatus'[1] = exitStatus[1]
       /\ \A uk \in Present :
            /\ (Entry(uk).status = "Pending" /\ EntryNext(uk) # Entry(uk)) =>
                  (Approves(1) /\ CurSlot(1) = uk)
            /\ (Entry(uk).status = "Pending" /\ pc[1] = "loop" /\ pc'[1] = "iter") =>
                  /\ [u |-> uk[1], k |-> uk[2]] \in SeqRange(todo'[1])
                  /\ snapshot'[1][uk[1]].items[uk[2]] = Entry(uk)]_vars

\* The update for u1's first transaction failed: it is still Pending and
\* was not credited, and the same scan went on to approve u1's second one.
C14_Witness ==
    /\ Logged(1, "write_failed", <<"u1", "k1">>)
    /\ ~Logged(1, "approved", <<"u1", "k1">>)
    /\ Entry(<<"u1", "k1">>).status = "Pending"
    /\ Logged(1, "approved", <<"u1", "k2">>)
    /\ users["u1"] = NumBalance(1000 + Entry(<<"u1", "k2">>).amount.v)

(* --------------------------- offsets and the grace --------------------- *)

(* C15 (as claimed): whatever UTC offset a parseable timestamp carries, the
   scan finds the transaction old enough exactly when the time elapsed
   since the instant the timestamp denotes is at least two minutes. *)
C15_GraceUsesTrueElapsedTime ==
    \A i \in Instances :
        (pc[i] = "iter" /\ Parsed(i)) =>
            (OldEnough(Elapsed(i)) <=> SpecAge(now, CurData(i).date) >= 2 * 60)

(* -------------------------------- progress ----------------------------- *)

\* The transaction at uk, as instance i fetched it, is Pending with a
\* 12-digit reference, a parseable timestamp and a non-negative numeric
\* amount, and its owner's balance is a number or absent.
SpecEligible(i, uk) ==
    LET d == snapshot[i][uk[1]].items[uk[2]]
    IN  /\ snapshot[i][uk[1]].shape = "dict"
        /\ d.shape = "dict"
        /\ d.status = "Pending"
        /\ SpecRefOk(d.utr)
        /\ SpecAmountOk(d.amount)
        /\ ParseDate(d.date).res = "ok"
        /\ users[uk[1]].kind # "str"

\* Instance i's scan began at or after the instant of uk's timestamp plus
\* two minutes.
StartedAfterGrace(i, uk) ==
    SpecAge(scanStart[i], snapshot[i][uk[1]].items[uk[2]].date) >= 2 * 60

(* C16 (as claimed): a scan that starts at or after timestamp + 2 minutes
   and goes through without a failed read or write leaves every transaction
   it fetched as Pending with a valid reference, a parseable timestamp and
   a non-negative numeric amount Approved and credited: when the scan has
   returned, the transaction is Approved in the store and the scan has
   reported its approval. *)
C16_ApprovedByFirstScanAfterGrace ==
    \A uk \in Slots :
        (/\ pc[1] = "returned"
         /\ SpecEligible(1, uk)
         /\ StartedAfterGrace(1, uk)
         /\ ~Logged(1, "read_failed", uk)
         /\ ~Logged(1, "write_failed", uk))
        => (Entry(uk).status = "Approved" /\ Logged(1, "approved", uk))

(* ----------------------------- read, then write ------------------------ *)

(* C17 (as claimed): every credit applied to a user's balance between an
   approval's read and its write is preserved: the combined update leaves
   the balance at its value just before the write plus the amount. *)
C17_CreditsBetweenReadAndWriteKept ==
    [][\A i \in Instances :
          Approves(i) =>
              users'[Cur(i).u] =
                  NumBalance(SpecBalance(users[Cur(i).u]) + CurData(i).amount.v)
      ]_vars

(* --------------------------------- frame ------------------------------- *)

(* C18: the combined update of an approval changes only the status of the
   approved transaction and the balance of its owner: its amount, reference
   and timestamp, every other transaction and every other user are as
   before.  Every other step of the instance (fetch, skip, check, balance
   read, failure, sleep) leaves the store unchanged. *)
C18_ApproveWritesStatusAndBalanceOnly ==
    [][/\ Approves(1) =>
            /\ \A uk \in Slots :
                  IF uk = CurSlot(1)
                  THEN EntryNext(uk) = [Entry(uk) EXCEPT !.status = "Approved"]
                  ELSE EntryNext(uk) = Entry(uk)
            /\ \A u \in Users :
                  /\ transactions'[u].shape = transactions[u].shape
                  /\ u # Cur(1).u => users'[u] = users[u]
            /\ users'[Cur(1).u].kind = "num"
       /\ (instVars' # instVars /\ ~Approves(1)) =>
            (transactions' = transactions /\ users' = users)]_vars

\* u1's first transaction has been approved and credited while u1's second
\* transaction is still Pending and u2 has the balance it started with.
C18_Witness ==
    /\ Logged(1, "approved", <<"u1", "k1">>)
    /\ Entry(<<"u1", "k1">>).status = "Approved"
    /\ Entry(<<"u1", "k2">>).shape = "dict"
    /\ Entry(<<"u1", "k2">>).status = "Pending"
    /\ users["u1"] = NumBalance(1500)
    /\ users["u2"] = NumBalance(1000)

(* -------------------------- balances never shrink ---------------------- *)

(* C19 (as claimed): starting from non-negative balances, no step makes a
   user's balance negative and no step of a Reconciler instance makes it
   smaller than it was (an absent balance counting as 0). *)
C19_BalancesNonNegativeAndNeverDecrease ==
    [][\A u \in Users :
          /\ SpecBalance(users'[u]) >= 0
          /\ SpecBalance(users'[u]) >= SpecBalance(users[u])
      ]_vars

====
